---- MODULE Spec2Model ----
(***************************************************************************)
(* Model of the DICOM header repair pipeline of                            *)
(*   src/Notebooks/DICOM Issue analysis.ipynb                              *)
(* (load_header, get_dicom_images, build_dicom_file_name,                  *)
(* save_dicom_dataset, perform_repairs and the three repair rules).        *)
(*                                                                         *)
(* Text is a sequence of one-character strings.  An element value is the   *)
(* sequence of its backslash-separated components: one component is a      *)
(* Python str, two or more are a pydicom MultiValue.  A Dataset is a       *)
(* function from the keywords it holds to their values.                    *)
(***************************************************************************)
EXTENDS Naturals, Sequences, FiniteSets, TLC

VARIABLES
    repair_methods,  \* the rule list handed to perform_repairs
    nfiles,          \* number of entries data_path.glob() will produce
    scanned,         \* entries the generator get_dicom_images has consumed
    pc,              \* position of perform_repairs
    ruleIdx,         \* index of the next repair_method for the dataset in flight
    dataset,         \* the loop variable `dataset` of perform_repairs
    repair_log,      \* the Status Sink: messages given to status_output, in order
    output_dir,      \* files in output_path: set of [name, content]
    calls,           \* history: loads, datasets yielded, rule and writer invocations, in order
    include_subdirectories,  \* the argument of that name of get_dicom_images
    input_dir,       \* the paths under data_path seen so far, in the order of the walk
    run,             \* 1 in the first run of perform_repairs on a directory, 2 in a rerun;
                     \* the pass over the rule list when the list is applied again
    progress_element,  \* the ProgressBar of the GUI: its value and its maximum
    status_element   \* the status widget of the GUI: the messages printed to it

vars == <<repair_methods, nfiles, scanned, pc, ruleIdx, dataset, repair_log,
          output_dir, calls, include_subdirectories, input_dir, run,
          progress_element, status_element>>

---------------------------------------------------------------------------
(* Bounds of the model *)

MaxFiles == 2

MaxCalls == 1

MaxLen == 2

MaxPad == 1

MaxUpdates == 2

MaxLevel == 2

MaxPasses == 2

---------------------------------------------------------------------------
(* Text *)

RECURSIVE TextsUpTo(_, _)
TextsUpTo(chars, n) ==
    IF n = 0 THEN {<<>>}
    ELSE LET shorter == TextsUpTo(chars, n - 1)
         IN  shorter \cup {Append(t, c) : t \in shorter, c \in chars}

\* Python: sub in text   (str.__contains__)
Contains(text, sub) ==
    \E i \in 0..(Len(text) - Len(sub)) :
        SubSeq(text, i + 1, i + Len(sub)) = sub

\* Python: text.startswith(prefix)
StartsWith(text, prefix) ==
    /\ Len(text) >= Len(prefix)
    /\ SubSeq(text, 1, Len(prefix)) = prefix

UpperCase == <<"A", "B", "C", "D", "E", "F", "G", "H", "I", "J", "K", "L", "M",
               "N", "O", "P", "Q", "R", "S", "T", "U", "V", "W", "X", "Y", "Z">>

LowerCase == <<"a", "b", "c", "d", "e", "f", "g", "h", "i", "j", "k", "l", "m",
               "n", "o", "p", "q", "r", "s", "t", "u", "v", "w", "x", "y", "z">>

\* the text in lower case
Lower(text) ==
    [k \in 1..Len(text) |->
        IF \E n \in DOMAIN UpperCase : UpperCase[n] = text[k]
        THEN LowerCase[CHOOSE n \in DOMAIN UpperCase : UpperCase[n] = text[k]]
        ELSE text[k]]

Slash == <<"/">>

CT == <<"C", "T">>

PT == <<"P", "T">>

NM == <<"N", "M">>

Mississauga == <<"M", "i", "s", "s", "i", "s", "s", "a", "u", "g", "a">>

DotDcm == <<".", "d", "c", "m">>

---------------------------------------------------------------------------
(* pydicom values and datasets *)

\* a str value
Str(text) == <<text>>

Blank == Str(<<>>)

\* pydicom turns a value holding a backslash into a MultiValue
IsMultiValue(value) == Len(value) > 1

\* Python: sub in value.  On a str this is a substring test, on a MultiValue
\* it is a test for an item equal to sub.
PyIn(sub, value) ==
    IF IsMultiValue(value)
    THEN \E i \in 1..Len(value) : value[i] = sub
    ELSE Contains(value[1], sub)

PyNone == [type |-> "NoneType"]

Dataset(elements) == [type |-> "Dataset", elements |-> elements]

IsDataset(obj) == obj.type = "Dataset"

\* Python: keyword in dataset
Has(ds, keyword) == keyword \in DOMAIN ds.elements

\* Python: dataset.data_element(keyword).value
ValueOf(ds, keyword) == ds.elements[keyword]

\* Python: dataset.data_element(keyword).value = value
SetValue(ds, keyword, value) ==
    Dataset([ds.elements EXCEPT ![keyword] = value])

\* Python: bool(obj).  None is false; a Dataset defines __len__, so it is
\* false when it holds no element.
Truthy(obj) == IsDataset(obj) /\ DOMAIN obj.elements # {}

---------------------------------------------------------------------------
(* The Status Sink and the effects of a rule call *)

Message(text, args) == [text |-> text, args |-> args]

\* the state of one call of a repair rule: the object it was given (rules
\* change a Dataset in place), what it did so far, the exception that ended
\* it ("" when none), and the value it returned
Call(obj) == [object |-> obj, events |-> <<>>, raised |-> "", returns |-> PyNone]

\* status_output(message)
Report(call, message) ==
    [call EXCEPT !.events = Append(@, [type |-> "status_output", message |-> message])]

\* dataset.data_element(keyword).value = value
Assign(call, keyword, value) ==
    [call EXCEPT !.object = SetValue(@, keyword, value),
                 !.events = Append(@, [type |-> "set", keyword |-> keyword,
                                       value |-> value])]

Raise(call, exception) == [call EXCEPT !.raised = exception]

\* return dataset
Return(call, obj) == IF call.raised # "" THEN call ELSE [call EXCEPT !.returns = obj]

\* the messages a call gave to status_output, in order
Messages(call) ==
    LET logged == SelectSeq(call.events, LAMBDA e : e.type = "status_output")
    IN  [i \in 1..Len(logged) |-> logged[i].message]

\* the values a call assigned to `keyword`, in order
Assigned(call, keyword) ==
    LET sets == SelectSeq(call.events,
                          LAMBDA e : e.type = "set" /\ e.keyword = keyword)
    IN  [i \in 1..Len(sets) |-> sets[i].value]

---------------------------------------------------------------------------
(* Rule A *)

InvalidCharacterMessage(element_name) ==
    Message("Invalid Character found in element {name}.\tReplaced with blank string.",
            <<Str(element_name)>>)

\* one pass of the loop `for element_name in data_elements`
check_element(call, element_name) ==
    IF call.raised # "" THEN call
    ELSE IF ~IsDataset(call.object) THEN Raise(call, "TypeError")
    ELSE IF ~Has(call.object, element_name) THEN call
    ELSE LET value == ValueOf(call.object, element_name)
         IN  IF IsMultiValue(value) THEN Raise(call, "AttributeError")
             ELSE IF StartsWith(value[1], Slash)
                  THEN Assign(Report(call, InvalidCharacterMessage(element_name)),
                              element_name, Blank)
                  ELSE call

fix_invalid_characters(obj) ==
    LET first  == check_element(Call(obj), "BodyPartExamined")
        second == check_element(first, "OtherPatientIDs")
    IN  Return(second, second.object)

---------------------------------------------------------------------------
(* Rule B *)

ModalityNotFoundMessage == Message("Modality element not found. File not used.", <<>>)

IncorrectModalityMessage(old_modality, new_modality) ==
    Message("Incorrect Modality found.\tModality changed from \"{old_modality}\" to \"{new_modality}\"",
            <<old_modality, new_modality>>)

\* check_ct with the PET branch's literal left in the assignment
check_ct_pasted(call, modality) ==
    IF Has(call.object, "KVP") /\ ~PyIn(CT, modality)
    THEN Assign(Report(call, IncorrectModalityMessage(modality, Str(CT))),
                "Modality", Str(PT))
    ELSE call

\* `if 'KVP' in dataset: if 'CT' not in modality: ...`
check_ct(call, modality) ==
    IF Has(call.object, "KVP") /\ ~PyIn(CT, modality)
    THEN Assign(Report(call, IncorrectModalityMessage(modality, Str(CT))),
                "Modality", Str(CT))
    ELSE call

\* check_pet without its status_output call
check_pet_silent(call, modality) ==
    IF Has(call.object, "RadiopharmaceuticalInformationSequence") /\ ~PyIn(PT, modality)
    THEN Assign(call, "Modality", Str(PT))
    ELSE call

\* `if 'RadiopharmaceuticalInformationSequence' in dataset: if 'PT' not in modality: ...`
check_pet(call, modality) ==
    IF Has(call.object, "RadiopharmaceuticalInformationSequence") /\ ~PyIn(PT, modality)
    THEN Assign(Report(call, IncorrectModalityMessage(modality, Str(PT))),
                "Modality", Str(PT))
    ELSE call

fix_incorrect_modality(obj) ==
    IF ~IsDataset(obj) THEN Raise(Call(obj), "TypeError")
    ELSE IF ~Has(obj, "Modality")
         THEN Return(Report(Call(obj), ModalityNotFoundMessage), PyNone)
         ELSE LET modality == ValueOf(obj, "Modality")   \* read once, before both checks
                  after_ct  == check_ct(Call(obj), modality)
                  after_pet == check_pet(after_ct, modality)
              IN  Return(after_pet, after_pet.object)

---------------------------------------------------------------------------
(* Rule C *)

MismatchedAddressMessage(address) ==
    Message("Mismatched Institution Addresses Suspected.\tAddress: \"{address}\" Replaced with blank string.",
            <<address>>)

\* fix_incorrect_address with address.startswith('Mississauga') as its test
fix_incorrect_address_prefix(obj) ==
    IF ~IsDataset(obj) THEN Raise(Call(obj), "TypeError")
    ELSE IF ~Has(obj, "InstitutionAddress") THEN Return(Call(obj), obj)
    ELSE LET address == ValueOf(obj, "InstitutionAddress")
             checked == IF StartsWith(address[1], Mississauga)
                        THEN Assign(Report(Call(obj), MismatchedAddressMessage(address)),
                                    "InstitutionAddress", Blank)
                        ELSE Call(obj)
         IN  Return(checked, checked.object)

\* fix_incorrect_address that gives a dataset without InstitutionAddress an
\* empty one
fix_incorrect_address_adding(obj) ==
    IF ~IsDataset(obj) THEN Raise(Call(obj), "TypeError")
    ELSE IF ~Has(obj, "InstitutionAddress")
         THEN LET added == Dataset([k \in DOMAIN obj.elements \cup {"InstitutionAddress"} |->
                                       IF k = "InstitutionAddress" THEN Blank
                                       ELSE obj.elements[k]])
              IN  Return([Call(obj) EXCEPT !.object = added], added)
    ELSE LET address == ValueOf(obj, "InstitutionAddress")
             checked == IF PyIn(Mississauga, address)
                        THEN Assign(Report(Call(obj), MismatchedAddressMessage(address)),
                                    "InstitutionAddress", Blank)
                        ELSE Call(obj)
         IN  Return(checked, checked.object)

fix_incorrect_address(obj) ==
    IF ~IsDataset(obj) THEN Raise(Call(obj), "TypeError")
    ELSE IF ~Has(obj, "InstitutionAddress") THEN Return(Call(obj), obj)
    ELSE LET address == ValueOf(obj, "InstitutionAddress")
             checked == IF PyIn(Mississauga, address)
                        THEN Assign(Report(Call(obj), MismatchedAddressMessage(address)),
                                    "InstitutionAddress", Blank)
                        ELSE Call(obj)
         IN  Return(checked, checked.object)

RuleNames == {"fix_invalid_characters", "fix_incorrect_modality", "fix_incorrect_address"}

\* repair_method(dataset, status_output)
repair_method(name, obj) ==
    CASE name = "fix_invalid_characters" -> fix_invalid_characters(obj)
      [] name = "fix_incorrect_modality" -> fix_incorrect_modality(obj)
      [] name = "fix_incorrect_address"  -> fix_incorrect_address(obj)

---------------------------------------------------------------------------
(* The Output Writer *)

\* build_dicom_file_name(dataset): data_element() of a keyword the dataset
\* lacks raises KeyError; ''.join() of a MultiValue raises TypeError
build_dicom_file_name(ds) ==
    IF ~Has(ds, "Modality") \/ ~Has(ds, "SOPInstanceUID")
    THEN [raised |-> "KeyError", file_name |-> <<>>]
    ELSE LET modality     == ValueOf(ds, "Modality")
             instance_uid == ValueOf(ds, "SOPInstanceUID")
         IN  IF IsMultiValue(modality) \/ IsMultiValue(instance_uid)
             THEN [raised |-> "TypeError", file_name |-> <<>>]
             ELSE [raised |-> "", file_name |-> modality[1] \o instance_uid[1] \o DotDcm]

\* save_as that does not overwrite: when the name is taken the file is written
\* under the name with a "~" appended
save_as_renaming(directory, file_name, ds) ==
    LET name == IF \E f \in directory : f.name = file_name
                THEN Append(file_name, "~") ELSE file_name
    IN  {f \in directory : f.name # name} \cup {[name |-> name, content |-> ds]}

\* dataset.save_as(output_path / output_file_name): a file of that name is
\* replaced
save_as(directory, file_name, ds) ==
    {f \in directory : f.name # file_name} \cup {[name |-> file_name, content |-> ds]}

\* save_dicom_dataset(dataset, output_path)
save_dicom_dataset(ds, directory) ==
    LET built == build_dicom_file_name(ds)
    IN  IF built.raised # ""
        THEN [raised |-> built.raised, file_name |-> <<>>, directory |-> directory]
        ELSE [raised |-> "", file_name |-> built.file_name,
              directory |-> save_as(directory, built.file_name, ds)]

---------------------------------------------------------------------------
(* The Status Sink of the GUI: status_output of DICOM Repair GUI.ipynb and
   its ProgressBar.  A message is a text; an optional argument is <<>> when
   it is None and <<v>> when it is v. *)

NotGiven == <<>>

Given(v) == <<v>>

\* Python: bool(x) of an optional int: None and 0 are false
TruthyInt(x) == x # NotGiven /\ x[1] # 0

InitialMax == 100

\* ProgressBar(max_value=100, ...): value defaults to 0
ProgressBar == [value |-> 0, max |-> InitialMax]

\* ProgressBar.update(current_count, max=max): the base class takes the new
\* maximum when one is given; the value attribute follows current_count when
\* it is not None
update(bar, current_count, max) ==
    [value |-> IF current_count # NotGiven THEN current_count[1] ELSE bar.value,
     max   |-> IF max # NotGiven THEN max[1] ELSE bar.max]

\* ProgressBar.increment(step_size=1)
increment(bar) ==
    LET current_level == IF bar.value = 0 THEN 0 ELSE bar.value
        new_level     == current_level + 1
    IN  update(bar, Given(new_level), NotGiven)

CheckingFile == <<"C", "h", "e", "c", "k", "i", "n", "g", " ", "f", "i", "l", "e">>

\* status_output(main_window, status_element, progress_element, repair_log,
\* message, value, max_count); main_window.refresh() redraws and changes
\* nothing
status_output(bar, status, log, message, value, max_count) ==
    LET reset   == IF TruthyInt(max_count) THEN update(bar, Given(0), max_count) ELSE bar
        set     == IF TruthyInt(value) THEN update(reset, value, NotGiven) ELSE reset
        counted == IF message # <<>> /\ Contains(message, CheckingFile)
                   THEN increment(set) ELSE set
    IN  [progress_element |-> counted,
         status_element   |-> IF message # <<>> THEN Append(status, message) ELSE status,
         repair_log       |-> IF message # <<>> THEN Append(log, message) ELSE log]

---------------------------------------------------------------------------
(* Inputs *)

Absent == <<>>

Keywords == {"Modality", "SOPInstanceUID", "KVP",
             "RadiopharmaceuticalInformationSequence", "BodyPartExamined",
             "OtherPatientIDs", "InstitutionAddress"}

\* the dataset holding exactly the keywords `choice` does not leave Absent
MakeDataset(choice) ==
    Dataset([k \in {kw \in Keywords : choice[kw] # Absent} |-> choice[k]])

Present == Str(<<"1">>)

\* what the files of the input directory may hold
PipelineDatasets ==
    {MakeDataset(c) : c \in
        [Modality : {Absent, Blank, Str(CT), Str(NM)},
         SOPInstanceUID : {Absent, Str(<<"1">>), Str(<<"2">>)},
         KVP : {Absent, Present},
         RadiopharmaceuticalInformationSequence : {Absent},
         BodyPartExamined : {Absent},
         OtherPatientIDs : {Absent},
         InstitutionAddress : {Absent}]}

MISSISSAUGA == <<"M", "I", "S", "S", "I", "S", "S", "A", "U", "G", "A">>

\* what surrounds the place name in an address
Pads == TextsUpTo({" "}, MaxPad)

Addresses ==
    {(p \o core) \o q : p \in Pads, q \in Pads,
                        core \in {<<>>, Mississauga, MISSISSAUGA,
                                  SubSeq(Mississauga, 1, Len(Mississauga) - 1)}}

\* values of BodyPartExamined
CheckedValues ==
    {Str(t) : t \in TextsUpTo({"/", "x"}, MaxLen)} \cup {<<Slash, <<"x">>>>}

\* values of OtherPatientIDs
OtherIDValues == {Blank, Str(<<"x">>), Str(<<"/", "x">>), <<Slash, <<"x">>>>}

ModalityValues ==
    {Blank, Str(CT), Str(PT), Str(NM), Str(PT \o CT), <<NM, PT>>, <<NM \o CT, NM>>}

\* the datasets the rules are tried on
RuleDatasets ==
    {MakeDataset(c) : c \in
        [Modality : {Absent} \cup ModalityValues,
         SOPInstanceUID : {Str(<<"1">>)},
         KVP : {Absent, Present},
         RadiopharmaceuticalInformationSequence : {Absent, Present},
         BodyPartExamined : {Absent} \cup CheckedValues,
         OtherPatientIDs : {Absent} \cup OtherIDValues,
         InstitutionAddress : {Absent} \cup {Str(a) : a \in Addresses}]}

\* a path under data_path: whether it lies in a subdirectory, the suffix of its
\* name, whether it is a regular file, and what pydicom.dcmread does on it:
\* returns a dataset, raises InvalidDicomError, or raises an OSError
Path(in_subdirectory, suffix, is_file, reads, ds) ==
    [in_subdirectory |-> in_subdirectory, suffix |-> suffix, is_file |-> is_file,
     reads |-> reads, dataset |-> ds]

\* the paths of the directories perform_repairs is run on: a directory, a
\* file that is not DICOM, a file that cannot be read, a DICOM file
Entries ==
    {Path(FALSE, DotDcm, FALSE, "OSError", PyNone),
     Path(FALSE, DotDcm, TRUE, "InvalidDicomError", PyNone),
     Path(FALSE, DotDcm, TRUE, "OSError", PyNone)}
    \cup {Path(FALSE, DotDcm, TRUE, "Dataset", ds) : ds \in PipelineDatasets}

\* the datasets of the directories get_dicom_images is tried on
ScanDatasets ==
    {Dataset(<<>>), Dataset([k \in {"Modality"} |-> Str(CT)])}

\* the paths of the directories get_dicom_images is tried on: in the
\* directory or in a subdirectory, named with or without a "."
ScanEntries ==
    {Path(sub, suffix, FALSE, "OSError", PyNone) :
        sub \in BOOLEAN, suffix \in {<<>>, DotDcm}}
    \cup {Path(sub, suffix, TRUE, reads, PyNone) :
            sub \in BOOLEAN, suffix \in {<<>>, DotDcm},
            reads \in {"InvalidDicomError", "OSError"}}
    \cup {Path(sub, suffix, TRUE, "Dataset", ds) :
            sub \in BOOLEAN, suffix \in {<<>>, DotDcm}, ds \in ScanDatasets}

Digits == <<"1", "2", "3", "4", "5", "6", "7", "8", "9">>

\* the name of the n-th path without its suffix
FileStem(n) == <<"f", Digits[n]>>

\* dicom_file.name of the n-th path
FileName(entry, n) == Str(FileStem(n) \o entry.suffix)

\* the rule lists perform_repairs may be given: the rules, each at most once,
\* in any order
RuleLists ==
    {l \in UNION {[1..n -> RuleNames] : n \in 1..3} :
        \A i, j \in DOMAIN l : i # j => l[i] # l[j]}

\* the list of the notebook
DefaultRules == <<"fix_invalid_characters", "fix_incorrect_modality",
                  "fix_incorrect_address">>

---------------------------------------------------------------------------
(* load_header and get_dicom_images *)

CheckingFileMessage(name) == Message("Checking file {dicom_file.name}", <<name>>)

SkippedMessage(name) ==
    Message("{file_path.name} did not contain valid DICOM data.  Skipped.", <<name>>)

\* load_header that reports nothing
load_header_silent(entry, n) ==
    CASE entry.reads = "Dataset" ->
           [raised |-> "", dataset |-> entry.dataset, messages |-> <<>>]
      [] entry.reads = "InvalidDicomError" ->
           [raised |-> "", dataset |-> PyNone, messages |-> <<>>]
      [] OTHER ->
           [raised |-> entry.reads, dataset |-> PyNone, messages |-> <<>>]

\* load_header(file_path, status_output): the dataset dcmread returns; None
\* and one message when dcmread raises InvalidDicomError; any other
\* exception of dcmread is not caught
load_header(entry, n) ==
    CASE entry.reads = "Dataset" ->
           [raised |-> "", dataset |-> entry.dataset, messages |-> <<>>]
      [] entry.reads = "InvalidDicomError" ->
           [raised |-> "", dataset |-> PyNone,
            messages |-> <<SkippedMessage(FileName(entry, n))>>]
      [] OTHER ->
           [raised |-> entry.reads, dataset |-> PyNone, messages |-> <<>>]

scan_pattern(recursive) == IF recursive THEN "**/*" ELSE "*.*"

\* whether data_path.glob(pattern) produces the path: "**/*" matches every
\* path below data_path, "*.*" the paths directly in data_path whose name
\* holds a "."
Globbed(entry, n, pattern) ==
    IF pattern = "**/*" THEN TRUE
    ELSE ~entry.in_subdirectory /\ Contains(FileName(entry, n)[1], <<".">>)

NoPass == [messages |-> <<>>, history |-> <<>>, raised |-> "", yields |-> FALSE,
           dataset |-> PyNone]

\* the body of the loop of get_dicom_images without `if dicom_file.is_file()`
dicom_file_pass_any(entry, n, recursive, logged) ==
    IF ~Globbed(entry, n, scan_pattern(recursive)) THEN NoPass
    ELSE LET loaded == load_header(entry, n)
         IN  [messages |-> <<CheckingFileMessage(FileName(entry, n))>> \o loaded.messages,
              history  |-> <<[op |-> "load_header", file |-> n, at |-> logged + 1,
                              raised |-> loaded.raised, returns |-> loaded.dataset,
                              messages |-> loaded.messages]>>,
              raised   |-> loaded.raised,
              yields   |-> FALSE,
              dataset  |-> loaded.dataset]

\* one pass of `for dicom_file in data_path.glob(scan_pattern)` of
\* get_dicom_images, on the n-th path below data_path, with `logged` messages
\* in the Status Sink: the messages it gives to status_output, the call of
\* load_header it makes (`at` counts the messages given to status_output
\* before the call), the exception that ends it, and the dataset it yields
dicom_file_pass(entry, n, recursive, logged) ==
    IF ~Globbed(entry, n, scan_pattern(recursive)) \/ ~entry.is_file THEN NoPass
    ELSE LET loaded == load_header(entry, n)
             yields == loaded.raised = "" /\ Truthy(loaded.dataset)
         IN  [messages |-> <<CheckingFileMessage(FileName(entry, n))>> \o loaded.messages,
              history  |-> <<[op |-> "load_header", file |-> n, at |-> logged + 1,
                              raised |-> loaded.raised, returns |-> loaded.dataset,
                              messages |-> loaded.messages]>>
                           \o (IF yields
                               THEN <<[op |-> "yield", file |-> n,
                                       dataset |-> loaded.dataset]>>
                               ELSE <<>>),
              raised   |-> loaded.raised,
              yields   |-> yields,
              dataset  |-> loaded.dataset]

---------------------------------------------------------------------------
(* perform_repairs *)

Unbound == [type |-> "unbound"]

\* perform_repairs calls get_dicom_images(input_path, status_output):
\* include_subdirectories has its default
Init ==
    /\ repair_methods \in RuleLists
    /\ nfiles \in 0..MaxFiles
    /\ scanned = 0
    /\ pc = "scan"
    /\ ruleIdx = 0
    /\ dataset = Unbound
    /\ repair_log = <<>>
    /\ output_dir = {}
    /\ calls = <<>>
    /\ include_subdirectories = TRUE
    /\ input_dir = <<>>
    /\ run = 1
    /\ progress_element = ProgressBar
    /\ status_element = <<>>

\* what the next path below data_path may be: any of `paths` when the
\* directory is walked for the first time, the path seen there before when it
\* is walked again
NextPath(paths) ==
    IF scanned < Len(input_dir) THEN {input_dir[scanned + 1]} ELSE paths

\* the generator runs one pass of its loop on `entry`; when it yields, the
\* caller's loop body starts at `body`
Advance(entry, body) ==
    LET n    == scanned + 1
        pass == dicom_file_pass(entry, n, include_subdirectories, Len(repair_log))
    IN  /\ scanned' = n
        /\ input_dir' = IF n > Len(input_dir) THEN Append(input_dir, entry) ELSE input_dir
        /\ repair_log' = repair_log \o pass.messages
        /\ calls' = calls \o pass.history
        /\ IF pass.raised # ""
           THEN pc' = "raised" /\ UNCHANGED <<dataset, ruleIdx>>
           ELSE IF pass.yields
                THEN /\ dataset' = pass.dataset
                     /\ pc' = body
                     /\ ruleIdx' = IF body = "rule" THEN 1 ELSE ruleIdx
                ELSE UNCHANGED <<dataset, pc, ruleIdx>>
        /\ UNCHANGED <<repair_methods, nfiles, output_dir, include_subdirectories, run,
                     progress_element, status_element>>

\* a get_dicom_images that is not lazy: it goes on to the next path while the
\* caller is still at the head of its loop over repair_methods
CheckEntryEager ==
    /\ pc \in {"scan", "rule"}
    /\ scanned < nfiles
    /\ \E entry \in NextPath(Entries) : Advance(entry, "rule")

\* one pass of `for dicom_file in data_path.glob(scan_pattern)`; a dataset
\* that is yielded enters the loop over repair_methods
CheckEntry ==
    /\ pc = "scan"
    /\ scanned < nfiles
    /\ \E entry \in NextPath(Entries) : Advance(entry, "rule")

\* the generator is exhausted: perform_repairs returns
Finish ==
    /\ pc = "scan"
    /\ scanned = nfiles
    /\ pc' = "done"
    /\ UNCHANGED <<repair_methods, nfiles, scanned, ruleIdx, dataset, repair_log,
                   output_dir, calls, include_subdirectories, input_dir, run,
                   progress_element, status_element>>

\* dataset = repair_method(dataset, status_output)
ApplyRule ==
    /\ pc = "rule"
    /\ LET name == repair_methods[ruleIdx]
           call == repair_method(name, dataset)
       IN  /\ calls' = Append(calls, [op |-> "repair_method", file |-> scanned,
                                      index |-> ruleIdx, rule |-> name,
                                      arg |-> dataset, call |-> call])
           /\ repair_log' = repair_log \o Messages(call)
           /\ IF call.raised # ""
              THEN /\ pc' = "raised"
                   /\ dataset' = call.object
              ELSE /\ pc' = "save"
                   /\ dataset' = call.returns
    /\ UNCHANGED <<repair_methods, nfiles, scanned, ruleIdx, output_dir,
                   include_subdirectories, input_dir, run,
                   progress_element, status_element>>

\* `if dataset: save_dicom_dataset(dataset, output_path)`, then the next
\* repair_method, or the next dataset when the list is finished
SaveIfDataset ==
    /\ pc = "save"
    /\ LET saved == save_dicom_dataset(dataset, output_dir)
           next  == /\ pc' = IF ruleIdx < Len(repair_methods) THEN "rule" ELSE "scan"
                    /\ ruleIdx' = IF ruleIdx < Len(repair_methods) THEN ruleIdx + 1 ELSE 0
       IN  IF ~Truthy(dataset)
           THEN next /\ UNCHANGED <<output_dir, calls>>
           ELSE /\ calls' = Append(calls, [op |-> "save_dicom_dataset", file |-> scanned,
                                           index |-> ruleIdx, dataset |-> dataset,
                                           raised |-> saved.raised,
                                           file_name |-> saved.file_name])
                /\ output_dir' = saved.directory
                /\ IF saved.raised # ""
                   THEN pc' = "raised" /\ UNCHANGED ruleIdx
                   ELSE next
    /\ UNCHANGED <<repair_methods, nfiles, scanned, dataset, repair_log,
                   include_subdirectories, input_dir, run,
                   progress_element, status_element>>

Next == CheckEntry \/ Finish \/ ApplyRule \/ SaveIfDataset

Spec == Init /\ [][Next]_vars

---------------------------------------------------------------------------
(* perform_repairs run a second time on the same input directory, with the
   same output directory and rule list *)

\* the first run has ended, by returning or by an exception; the second call
\* finds the output directory as the first left it
Rerun ==
    /\ run = 1
    /\ pc \in {"done", "raised"}
    /\ run' = 2
    /\ pc' = "scan"
    /\ scanned' = 0
    /\ ruleIdx' = 0
    /\ dataset' = Unbound
    /\ calls' = Append(calls, [op |-> "perform_repairs", file |-> 0, run |-> 2,
                               output_dir |-> output_dir, logged |-> Len(repair_log)])
    /\ UNCHANGED <<repair_methods, nfiles, repair_log, output_dir,
                   include_subdirectories, input_dir,
                   progress_element, status_element>>

NextRerun == CheckEntry \/ Finish \/ ApplyRule \/ SaveIfDataset \/ Rerun

\* the rule lists the rerun is tried with: the list of the notebook, a list
\* that ends with the rule that discards, and a list that goes on after it
RerunRuleLists ==
    {DefaultRules,
     <<"fix_invalid_characters", "fix_incorrect_modality">>,
     <<"fix_incorrect_modality", "fix_incorrect_address">>,
     <<"fix_incorrect_modality">>}

InitRerun == Init /\ repair_methods \in RerunRuleLists

SpecRerun == InitRerun /\ [][NextRerun]_vars

---------------------------------------------------------------------------
(* get_dicom_images on its own: `for dataset in get_dicom_images(data_path,
   status_output, include_subdirectories)` with an empty loop body *)

InitScan ==
    /\ repair_methods = <<>>
    /\ nfiles \in 0..MaxFiles
    /\ scanned = 0
    /\ pc = "scan"
    /\ ruleIdx = 0
    /\ dataset = Unbound
    /\ repair_log = <<>>
    /\ output_dir = {}
    /\ calls = <<>>
    /\ include_subdirectories \in BOOLEAN
    /\ input_dir = <<>>
    /\ run = 1
    /\ progress_element = ProgressBar
    /\ status_element = <<>>

ScanEntry ==
    /\ pc = "scan"
    /\ scanned < nfiles
    /\ \E entry \in NextPath(ScanEntries) : Advance(entry, "scan")

NextScan == ScanEntry \/ Finish

SpecScan == InitScan /\ [][NextScan]_vars

---------------------------------------------------------------------------
(* The rules on their own: repair_method(dataset, status_output) called on a
   dataset, and again on what it returned *)

InitRules ==
    /\ repair_methods = <<>>
    /\ nfiles = 0
    /\ scanned = 0
    /\ pc = "call"
    /\ ruleIdx = 0
    /\ dataset \in RuleDatasets
    /\ repair_log = <<>>
    /\ output_dir = {}
    /\ calls = <<>>
    /\ include_subdirectories = TRUE
    /\ input_dir = <<>>
    /\ run = 1
    /\ progress_element = ProgressBar
    /\ status_element = <<>>

CallRule(name) ==
    /\ pc = "call"
    /\ Len(calls) < MaxCalls
    /\ LET call == repair_method(name, dataset)
       IN  /\ calls' = Append(calls, [op |-> "repair_method", file |-> 0,
                                      index |-> Len(calls) + 1, rule |-> name,
                                      arg |-> dataset, call |-> call])
           /\ repair_log' = repair_log \o Messages(call)
           /\ dataset' = IF call.raised # "" THEN call.object ELSE call.returns
           /\ pc' = IF call.raised # "" THEN "raised"
                    ELSE IF call.returns = PyNone THEN "discarded" ELSE "call"
    /\ UNCHANGED <<repair_methods, nfiles, scanned, ruleIdx, output_dir,
                   include_subdirectories, input_dir, run,
                   progress_element, status_element>>

CallInvalidCharacters == CallRule("fix_invalid_characters")

CallIncorrectModality == CallRule("fix_incorrect_modality")

CallIncorrectAddress == CallRule("fix_incorrect_address")

NextRules == CallInvalidCharacters \/ CallIncorrectModality \/ CallIncorrectAddress

SpecRules == InitRules /\ [][NextRules]_vars

---------------------------------------------------------------------------
(* The rule list of the notebook applied to a dataset, and applied again to
   the dataset it returned: `for repair_method in repair_methods:
   dataset = repair_method(dataset, status_output)` *)

InitChain ==
    /\ repair_methods = DefaultRules
    /\ nfiles = 0
    /\ scanned = 0
    /\ pc = "call"
    /\ ruleIdx = 1
    /\ dataset \in RuleDatasets
    /\ repair_log = <<>>
    /\ output_dir = {}
    /\ calls = <<>>
    /\ include_subdirectories = TRUE
    /\ input_dir = <<>>
    /\ run = 1
    /\ progress_element = ProgressBar
    /\ status_element = <<>>

\* the next repair_method of the list is called; `run` counts the passes
\* over the list
ChainStep ==
    /\ pc = "call"
    /\ run <= MaxPasses
    /\ LET name == repair_methods[ruleIdx]
           call == repair_method(name, dataset)
           last == ruleIdx = Len(repair_methods)
       IN  /\ calls' = Append(calls, [op |-> "repair_method", file |-> run,
                                      index |-> ruleIdx, rule |-> name,
                                      arg |-> dataset, call |-> call])
           /\ repair_log' = repair_log \o Messages(call)
           /\ dataset' = IF call.raised # "" THEN call.object ELSE call.returns
           /\ pc' = IF call.raised # "" THEN "raised" ELSE "call"
           /\ ruleIdx' = IF last THEN 1 ELSE ruleIdx + 1
           /\ run' = IF last THEN run + 1 ELSE run
    /\ UNCHANGED <<repair_methods, nfiles, scanned, output_dir,
                   include_subdirectories, input_dir,
                   progress_element, status_element>>

NextChain == ChainStep

SpecChain == InitChain /\ [][NextChain]_vars

---------------------------------------------------------------------------
(* status_output of the GUI called with any arguments *)

\* the messages status_output is tried with
GuiMessages ==
    {<<>>,
     CheckingFile \o <<" ", "a">>,
     <<"x", " ">> \o CheckingFile,
     Lower(CheckingFile),
     <<"o", "k">>}

\* the values status_output is tried with: none, or a progress level
GuiValues == {NotGiven} \cup {Given(v) : v \in 0..MaxLevel}

\* the max_counts status_output is tried with: none, or the number of files
\* of a directory that holds files
GuiMaxCounts == {NotGiven} \cup {Given(v) : v \in 1..MaxLevel}

InitGUI ==
    /\ repair_methods = <<>>
    /\ nfiles = 0
    /\ scanned = 0
    /\ pc = "gui"
    /\ ruleIdx = 0
    /\ dataset = Unbound
    /\ repair_log = <<>>
    /\ output_dir = {}
    /\ calls = <<>>
    /\ include_subdirectories = TRUE
    /\ input_dir = <<>>
    /\ run = 1
    /\ progress_element = ProgressBar
    /\ status_element = <<>>

StatusOutput ==
    /\ pc = "gui"
    /\ Len(calls) < MaxUpdates
    /\ \E message \in GuiMessages, value \in GuiValues, max_count \in GuiMaxCounts :
         LET after == status_output(progress_element, status_element, repair_log,
                                    message, value, max_count)
         IN  /\ progress_element' = after.progress_element
             /\ status_element' = after.status_element
             /\ repair_log' = after.repair_log
             /\ calls' = Append(calls, [op |-> "status_output", file |-> 0,
                                        message |-> message, value |-> value,
                                        max_count |-> max_count,
                                        before |-> [progress_element |-> progress_element,
                                                    repair_log |-> repair_log],
                                        after |-> [progress_element |-> after.progress_element,
                                                   repair_log |-> after.repair_log]])
    /\ UNCHANGED <<repair_methods, nfiles, scanned, pc, ruleIdx, dataset, output_dir,
                   include_subdirectories, input_dir, run>>

NextGUI == StatusOutput

SpecGUI == InitGUI /\ [][NextGUI]_vars

---------------------------------------------------------------------------
(* History of a run *)

IsYield(c) == c.op = "yield"

IsRuleCall(c) == c.op = "repair_method"

IsSave(c) == c.op = "save_dicom_dataset"

\* the rule call returned the discard signal
Discarded(c) == IsRuleCall(c) /\ c.call.raised = "" /\ c.call.returns = PyNone

\* the indices of the history entries of the n-th directory entry that satisfy P
CallsOf(n, P(_)) == {i \in DOMAIN calls : calls[i].file = n /\ P(calls[i])}

\* the n-th directory entry was yielded as a dataset
Yielded(n) == CallsOf(n, IsYield) # {}

YieldedDataset(n) == calls[CHOOSE i \in CallsOf(n, IsYield) : TRUE].dataset

\* perform_repairs has left the n-th directory entry behind
Finished(n) == n < scanned \/ (n = scanned /\ pc \in {"scan", "done", "raised"})

IsChecking(m) == m.text = "Checking file {dicom_file.name}"

\* the part of repair_log that belongs to the n-th directory entry: from its
\* "Checking file" line up to the next one
LogOf(n) ==
    LET starts == {i \in DOMAIN repair_log :
                     /\ IsChecking(repair_log[i])
                     /\ StartsWith(repair_log[i].args[1][1], FileStem(n))}
    IN  IF starts = {} THEN <<>>
        ELSE LET s    == CHOOSE i \in starts : TRUE
                 later == {i \in DOMAIN repair_log : i > s /\ IsChecking(repair_log[i])}
                 e    == IF later = {} THEN Len(repair_log)
                         ELSE (CHOOSE i \in later : \A j \in later : i <= j) - 1
             IN  SubSeq(repair_log, s, e)

Count(seq, P(_)) == Cardinality({i \in DOMAIN seq : P(seq[i])})

IsRejection(m) == m.text = ModalityNotFoundMessage.text

---------------------------------------------------------------------------
(* Claims about perform_repairs *)

\* C1: once a rule has returned the discard signal for a dataset, no later
\* rule and no writer call is made for that dataset, and the run goes on with
\* the next dataset instead of ending in an exception.
C1_DiscardStopsDataset ==
    \A i \in DOMAIN calls :
        Discarded(calls[i]) =>
            /\ \A j \in DOMAIN calls : j > i => calls[j].file # calls[i].file
            /\ pc # "raised" \/ scanned # calls[i].file

\* C2: with the notebook's rule order, a dataset without Modality that the
\* run has left behind produced no output file and exactly one rejection
\* line, no rule after fix_incorrect_modality was called for it, and the run
\* did not end on it.
C2_NoModalityRejectedOnce ==
    repair_methods = DefaultRules =>
        \A n \in 1..scanned :
            (Yielded(n) /\ ~Has(YieldedDataset(n), "Modality") /\ Finished(n)) =>
                /\ \A i \in CallsOf(n, IsSave) : calls[i].raised # ""
                /\ Count(LogOf(n), IsRejection) = 1
                /\ \A i \in CallsOf(n, IsRuleCall) :
                       calls[i].rule # "fix_incorrect_address"
                /\ pc # "raised" \/ scanned # n

\* C3: the writer is called for a dataset only when every rule of the list
\* has been applied to it, and at most once per dataset.
C3_WriterAfterAllRules ==
    \A i \in DOMAIN calls :
        IsSave(calls[i]) =>
            /\ calls[i].index = Len(repair_methods)
            /\ Cardinality(CallsOf(calls[i].file, IsSave)) <= 1

\* the n-th directory entry went through every rule without discard and
\* without an exception
Survived(n) ==
    /\ Finished(n)
    /\ Cardinality(CallsOf(n, IsRuleCall)) = Len(repair_methods)
    /\ \A i \in CallsOf(n, IsRuleCall) :
           calls[i].call.raised = "" /\ Truthy(calls[i].call.returns)
    /\ \A i \in CallsOf(n, IsSave) : calls[i].raised = ""

\* the dataset the last rule returned for the n-th directory entry
FinalDataset(n) ==
    LET last == CHOOSE i \in CallsOf(n, IsRuleCall) :
                    \A j \in CallsOf(n, IsRuleCall) : j <= i
    IN  calls[last].call.returns

\* <Modality><SOPInstanceUID>.dcm
ExpectedName(ds) == (ValueOf(ds, "Modality")[1] \o ValueOf(ds, "SOPInstanceUID")[1]) \o DotDcm

\* the names of the files written for the n-th directory entry
NamesOf(n) == {calls[i].file_name : i \in CallsOf(n, IsSave)}

\* C4: after a run, every surviving dataset has exactly one output file name,
\* <final Modality><SOPInstanceUID>.dcm; every file of the output directory
\* bears such a name; datasets with different SOPInstanceUID share no name.
C4_OutputNames ==
    pc = "done" =>
        /\ \A n \in 1..scanned :
               Survived(n) => NamesOf(n) = {ExpectedName(FinalDataset(n))}
        /\ \A f \in output_dir :
               \E n \in 1..scanned :
                   Survived(n) /\ f.name = ExpectedName(FinalDataset(n))
        /\ \A n, m \in 1..scanned :
               (/\ Survived(n) /\ Survived(m)
                /\ ValueOf(FinalDataset(n), "SOPInstanceUID")
                       # ValueOf(FinalDataset(m), "SOPInstanceUID"))
               => NamesOf(n) \cap NamesOf(m) = {}

\* C5: every dataset handed to the writer holds Modality and SOPInstanceUID,
\* both with a non-empty value.
C5_WriterInputComplete ==
    \A i \in DOMAIN calls :
        IsSave(calls[i]) =>
            /\ Has(calls[i].dataset, "Modality")
            /\ Has(calls[i].dataset, "SOPInstanceUID")
            /\ ValueOf(calls[i].dataset, "Modality") # Blank
            /\ ValueOf(calls[i].dataset, "SOPInstanceUID") # Blank

---------------------------------------------------------------------------
(* Claims about the rules.  They are stated about every call of a rule the
   history holds. *)

\* the history entry is a call of `rule` on a dataset
IsCallOf(c, rule) == IsRuleCall(c) /\ c.rule = rule /\ IsDataset(c.arg)

\* the stored text of a value starts with `prefix` (which holds no backslash)
ValueStartsWith(value, prefix) == StartsWith(value[1], prefix)

\* the stored text of a value contains `sub` (which holds no backslash)
ValueContains(value, sub) == \E i \in 1..Len(value) : Contains(value[i], sub)

\* the lines of a call that name the element `keyword`
LinesNaming(call, keyword) ==
    Count(Messages(call), LAMBDA m : m.text = InvalidCharacterMessage(keyword).text
                                       /\ m.args = <<Str(keyword)>>)

\* C6: fix_invalid_characters, for BodyPartExamined and OtherPatientIDs each
\* on its own, whatever the other one holds: a present str value that starts
\* with "/" is the empty string after the call and one line names the
\* element; a present str value that does not is unchanged and no line names
\* the element.
C6_InvalidCharactersCleared ==
    \A i \in DOMAIN calls :
        IsCallOf(calls[i], "fix_invalid_characters") =>
            \A keyword \in {"BodyPartExamined", "OtherPatientIDs"} :
                (Has(calls[i].arg, keyword)
                 /\ ~IsMultiValue(ValueOf(calls[i].arg, keyword))) =>
                    LET before == ValueOf(calls[i].arg, keyword)
                        after  == ValueOf(calls[i].call.object, keyword)
                        lines  == LinesNaming(calls[i].call, keyword)
                    IN  IF ValueStartsWith(before, Slash)
                        THEN after = Blank /\ lines = 1
                        ELSE after = before /\ lines = 0

IsCorrection(m) == m.text = IncorrectModalityMessage(Blank, Blank).text

\* C7: fix_incorrect_modality on a dataset with Modality.  With KVP and
\* without the PET sequence, a Modality that does not contain "CT" becomes
\* exactly "CT" and the one line logged gives the old value and "CT".  With
\* the PET sequence, a Modality that does not contain "PT" becomes exactly
\* "PT" and the last line logged is a correction to "PT"; without KVP it is
\* the one line logged and gives the old value.
C7_SingleIndicatorCorrected ==
    \A i \in DOMAIN calls :
        (IsCallOf(calls[i], "fix_incorrect_modality") /\ Has(calls[i].arg, "Modality")) =>
            LET arg   == calls[i].arg
                old   == ValueOf(arg, "Modality")
                after == ValueOf(calls[i].call.object, "Modality")
                lines == Messages(calls[i].call)
            IN  /\ calls[i].call.raised = ""
                /\ calls[i].call.returns = calls[i].call.object
                /\ (/\ Has(arg, "KVP")
                    /\ ~Has(arg, "RadiopharmaceuticalInformationSequence")
                    /\ ~ValueContains(old, CT))
                   => /\ after = Str(CT)
                      /\ lines = <<IncorrectModalityMessage(old, Str(CT))>>
                /\ (/\ Has(arg, "RadiopharmaceuticalInformationSequence")
                    /\ ~ValueContains(old, PT))
                   => /\ after = Str(PT)
                      /\ lines # <<>>
                      /\ IsCorrection(lines[Len(lines)])
                      /\ lines[Len(lines)].args[2] = Str(PT)
                      /\ ~Has(arg, "KVP")
                            => lines = <<IncorrectModalityMessage(old, Str(PT))>>

C7_Witness ==
    \E i \in DOMAIN calls :
        /\ IsCallOf(calls[i], "fix_incorrect_modality")
        /\ Has(calls[i].arg, "KVP")
        /\ ~Has(calls[i].arg, "RadiopharmaceuticalInformationSequence")
        /\ Has(calls[i].arg, "Modality")
        /\ ValueOf(calls[i].arg, "Modality") = Str(NM)
        /\ ValueOf(calls[i].call.object, "Modality") = Str(CT)
        /\ Len(Messages(calls[i].call)) = 1

\* C8: fix_incorrect_modality on a dataset that holds both KVP and the PET
\* sequence leaves Modality "PT", whatever it was.
C8_BothIndicatorsGivePT ==
    \A i \in DOMAIN calls :
        (/\ IsCallOf(calls[i], "fix_incorrect_modality")
         /\ Has(calls[i].arg, "Modality")
         /\ Has(calls[i].arg, "KVP")
         /\ Has(calls[i].arg, "RadiopharmaceuticalInformationSequence"))
        => ValueOf(calls[i].call.object, "Modality") = Str(PT)

\* C9: fix_incorrect_modality logs what it corrects.  Every assignment to
\* Modality comes right after a correction line whose new value is the value
\* assigned, and every correction line is followed by its assignment; when
\* both indicators are present and Modality contains neither "CT" nor "PT",
\* there are exactly two lines, to "CT" first and to "PT" second.
C9_BothCorrectionsLogged ==
    \A i \in DOMAIN calls :
        (IsCallOf(calls[i], "fix_incorrect_modality") /\ Has(calls[i].arg, "Modality")) =>
            LET arg    == calls[i].arg
                old    == ValueOf(arg, "Modality")
                events == calls[i].call.events
                lines  == Messages(calls[i].call)
            IN  /\ \A k \in DOMAIN events :
                       events[k].type = "set" =>
                           /\ events[k].keyword = "Modality"
                           /\ k > 1
                           /\ events[k - 1].type = "status_output"
                           /\ IsCorrection(events[k - 1].message)
                           /\ events[k - 1].message.args[2] = events[k].value
                /\ \A k \in DOMAIN events :
                       events[k].type = "status_output" =>
                           /\ k < Len(events)
                           /\ events[k + 1].type = "set"
                /\ (/\ Has(arg, "KVP")
                    /\ Has(arg, "RadiopharmaceuticalInformationSequence")
                    /\ ~ValueContains(old, CT)
                    /\ ~ValueContains(old, PT))
                   => /\ Len(lines) = 2
                      /\ IsCorrection(lines[1]) /\ lines[1].args[2] = Str(CT)
                      /\ IsCorrection(lines[2]) /\ lines[2].args[2] = Str(PT)
                      /\ Assigned(calls[i].call, "Modality") = <<Str(CT), Str(PT)>>

C9_Witness ==
    \E i \in DOMAIN calls :
        /\ IsCallOf(calls[i], "fix_incorrect_modality")
        /\ Has(calls[i].arg, "Modality")
        /\ Has(calls[i].arg, "KVP")
        /\ Has(calls[i].arg, "RadiopharmaceuticalInformationSequence")
        /\ ValueOf(calls[i].arg, "Modality") = Str(NM)
        /\ Len(calls[i].call.events) = 4
        /\ Len(repair_log) = 2

\* what fix_incorrect_address did to an address that names the place, and to
\* one that does not
AddressRepaired(c, names_place) ==
    LET address == ValueOf(c.arg, "InstitutionAddress")
        after   == ValueOf(c.call.object, "InstitutionAddress")
        lines   == Messages(c.call)
    IN  /\ c.call.raised = ""
        /\ c.call.returns = c.call.object
        /\ IF names_place
           THEN after = Blank /\ lines = <<MismatchedAddressMessage(address)>>
           ELSE after = address /\ lines = <<>>

\* C10 as claimed: an InstitutionAddress that contains "Mississauga" at any
\* position and in any letter casing is blanked, with one line giving the old
\* address; any other address is untouched and nothing is logged.
C10_AddressAnyCasing ==
    \A i \in DOMAIN calls :
        (IsCallOf(calls[i], "fix_incorrect_address")
         /\ Has(calls[i].arg, "InstitutionAddress")) =>
            AddressRepaired(calls[i],
                Contains(Lower(ValueOf(calls[i].arg, "InstitutionAddress")[1]),
                         Lower(Mississauga)))

\* C10 as amended: an InstitutionAddress that contains "Mississauga", in
\* exactly this casing, at any position is blanked, with one line giving the
\* old address; any other address, one that names the place in another
\* casing included, is untouched and nothing is logged.
C10_AddressExactCasing ==
    \A i \in DOMAIN calls :
        (IsCallOf(calls[i], "fix_incorrect_address")
         /\ Has(calls[i].arg, "InstitutionAddress")) =>
            AddressRepaired(calls[i],
                ValueContains(ValueOf(calls[i].arg, "InstitutionAddress"), Mississauga))

C10_Witness ==
    \E i \in DOMAIN calls :
        /\ IsCallOf(calls[i], "fix_incorrect_address")
        /\ Has(calls[i].arg, "InstitutionAddress")
        /\ ValueOf(calls[i].arg, "InstitutionAddress") = Str((<<" ">> \o Mississauga) \o <<" ">>)
        /\ ValueOf(calls[i].call.object, "InstitutionAddress") = Blank
        /\ Len(repair_log) = 1

\* C11: of the three rules only fix_incorrect_modality returns the discard
\* signal, and it does so exactly when Modality is absent (an empty Modality
\* is not discarded); fix_invalid_characters and fix_incorrect_address return
\* the dataset they were given, for every dataset.
C11_OnlyModalityDiscards ==
    \A i \in DOMAIN calls :
        LET c == calls[i]
        IN  /\ IsCallOf(c, "fix_incorrect_modality") =>
                   /\ c.call.raised = ""
                   /\ IF Has(c.arg, "Modality")
                      THEN c.call.returns = c.call.object
                      ELSE c.call.returns = PyNone
            /\ (IsCallOf(c, "fix_invalid_characters") \/ IsCallOf(c, "fix_incorrect_address")) =>
                   /\ c.call.raised = ""
                   /\ c.call.returns = c.call.object

\* C12: no rule raises on a dataset, whatever its fields hold: absent, empty,
\* a string, or a multi-valued value.
C12_NoRuleRaises ==
    \A i \in DOMAIN calls :
        (IsRuleCall(calls[i]) /\ IsDataset(calls[i].arg)) => calls[i].call.raised = ""

\* the fields a rule is about
Targets(rule) ==
    CASE rule = "fix_invalid_characters" -> {"BodyPartExamined", "OtherPatientIDs"}
      [] rule = "fix_incorrect_modality" -> {"Modality"}
      [] rule = "fix_incorrect_address"  -> {"InstitutionAddress"}

\* the messages of a call that are about the field `keyword`
NamesField(call, keyword) ==
    {k \in DOMAIN Messages(call) :
        LET m == Messages(call)[k]
        IN  \/ m.text = InvalidCharacterMessage(keyword).text /\ m.args = <<Str(keyword)>>
            \/ m.text = MismatchedAddressMessage(Blank).text /\ keyword = "InstitutionAddress"}

\* C19: a rule changes no field but its own: fix_invalid_characters only
\* BodyPartExamined and OtherPatientIDs, fix_incorrect_modality only
\* Modality, fix_incorrect_address only InstitutionAddress; no rule adds or
\* removes a field.  A field of fix_invalid_characters or
\* fix_incorrect_address that is absent stays absent and no line is logged for
\* it; when all the fields of such a rule are absent the dataset is unchanged
\* and nothing is logged.
C19_RuleFrame ==
    \A i \in DOMAIN calls :
        (IsRuleCall(calls[i]) /\ IsDataset(calls[i].arg)) =>
            LET c      == calls[i]
                before == c.arg.elements
                after  == c.call.object.elements
            IN  /\ IsDataset(c.call.object)
                /\ DOMAIN after = DOMAIN before
                /\ \A k \in DOMAIN before :
                       k \notin Targets(c.rule) => after[k] = before[k]
                /\ \A e \in DOMAIN c.call.events :
                       c.call.events[e].type = "set"
                           => c.call.events[e].keyword \in Targets(c.rule) \cap DOMAIN before
                /\ c.rule # "fix_incorrect_modality" =>
                       /\ \A k \in Targets(c.rule) \ DOMAIN before :
                              NamesField(c.call, k) = {}
                       /\ Targets(c.rule) \cap DOMAIN before = {}
                              => c.call.object = c.arg /\ Messages(c.call) = <<>>

C19_Witness ==
    \E i \in DOMAIN calls :
        /\ IsCallOf(calls[i], "fix_incorrect_address")
        /\ ~Has(calls[i].arg, "InstitutionAddress")
        /\ Has(calls[i].arg, "OtherPatientIDs")
        /\ ValueOf(calls[i].arg, "OtherPatientIDs") = Str(<<"/", "x">>)
        /\ calls[i].call.returns = calls[i].arg
        /\ repair_log = <<>>

---------------------------------------------------------------------------
(* Claims about load_header and get_dicom_images.  input_dir[n] is the n-th
   path below data_path; the history holds one load_header entry for every
   call of the Loader. *)

IsLoad(c) == c.op = "load_header"

IsSkip(m) == m.text = SkippedMessage(Blank).text

\* the positions of the "Checking file" lines that name the n-th path
CheckingLines(n) ==
    {k \in DOMAIN repair_log :
        IsChecking(repair_log[k]) /\ repair_log[k].args = <<FileName(input_dir[n], n)>>}

\* the positions of the skip lines that name the n-th path
SkipLines(n) ==
    {k \in DOMAIN repair_log :
        IsSkip(repair_log[k]) /\ repair_log[k].args = <<FileName(input_dir[n], n)>>}

\* C13: load_header on a file that is not valid DICOM gives exactly one
\* message, which names the file, to the Status Sink and returns None without
\* raising; on a file that decodes it returns the dataset and gives no
\* message; any other failure of the read is not caught: it ends the caller,
\* and nothing is logged for it.
C13_LoaderOutcomes ==
    \A i \in DOMAIN calls :
        IsLoad(calls[i]) =>
            LET c     == calls[i]
                entry == input_dir[c.file]
            IN  /\ SubSeq(repair_log, c.at + 1, c.at + Len(c.messages)) = c.messages
                /\ entry.reads = "InvalidDicomError" =>
                       /\ c.raised = ""
                       /\ c.returns = PyNone
                       /\ c.messages = <<SkippedMessage(FileName(entry, c.file))>>
                       /\ Cardinality(SkipLines(c.file)) = 1
                /\ entry.reads = "Dataset" =>
                       /\ c.raised = ""
                       /\ c.returns = entry.dataset
                       /\ c.messages = <<>>
                       /\ SkipLines(c.file) = {}
                /\ entry.reads = "OSError" =>
                       /\ c.raised = "OSError"
                       /\ c.messages = <<>>
                       /\ i = Len(calls)
                       /\ Len(repair_log) = c.at
                       /\ pc = "raised"

C13_Witness ==
    \E i \in DOMAIN calls :
        /\ IsLoad(calls[i])
        /\ input_dir[calls[i].file].reads = "InvalidDicomError"
        /\ calls[i].returns = PyNone
        /\ Len(repair_log) = calls[i].at + 1
        /\ IsSkip(repair_log[Len(repair_log)])
        /\ pc = "done"

\* get_dicom_images visits the n-th path: glob produces it
Visited(n) ==
    n <= scanned /\ Globbed(input_dir[n], n, scan_pattern(include_subdirectories))

\* C14: for every regular file get_dicom_images visits there is exactly one
\* "Checking file" line; it comes before the Loader is called on the file and
\* before any skip line for the file; there is no "Checking file" line for a
\* directory.
C14_CheckingFileFirst ==
    \A n \in 1..scanned :
        IF Visited(n) /\ input_dir[n].is_file
        THEN /\ Cardinality(CheckingLines(n)) = 1
             /\ \A k \in CheckingLines(n) :
                    /\ \A i \in CallsOf(n, IsLoad) : k <= calls[i].at
                    /\ \A j \in SkipLines(n) : k < j
             /\ Cardinality(CallsOf(n, IsLoad)) = 1
        ELSE CheckingLines(n) = {} /\ CallsOf(n, IsLoad) = {}

C14_Witness ==
    /\ scanned = 2
    /\ ~input_dir[1].is_file
    /\ input_dir[2].is_file
    /\ input_dir[2].reads = "InvalidDicomError"
    /\ Len(repair_log) = 2
    /\ IsChecking(repair_log[1])
    /\ IsSkip(repair_log[2])

\* C15: without recursion every regular file directly in the root directory
\* is checked, whatever its name, and no file of a subdirectory is; with
\* recursion every regular file at any depth is checked.
C15_TraversalSet ==
    \A n \in 1..scanned :
        input_dir[n].is_file =>
            (CheckingLines(n) # {}
                <=> (include_subdirectories \/ ~input_dir[n].in_subdirectory))

\* C20: get_dicom_images yields every dataset the Loader decodes, the one
\* without any element included; a checked file that is not yielded has its
\* skip line, so every "Checking file" line is followed by a yield or by
\* exactly one skip line.
C20_DecodedIsYielded ==
    \A i \in DOMAIN calls :
        (IsLoad(calls[i]) /\ calls[i].raised = "") =>
            LET n == calls[i].file
            IN  /\ IsDataset(calls[i].returns) =>
                       Yielded(n) /\ YieldedDataset(n) = calls[i].returns
                /\ ~Yielded(n) => Cardinality(SkipLines(n)) = 1
                /\ Yielded(n) => SkipLines(n) = {}

---------------------------------------------------------------------------
(* Claims about a run of perform_repairs as a whole *)

\* the number of messages a history entry gave to the Status Sink; the call
\* of the Loader is counted with the "Checking file" line before it
Logged(c) ==
    IF IsLoad(c) THEN 1 + Len(c.messages)
    ELSE IF IsRuleCall(c) THEN Len(Messages(c.call))
    ELSE 0

\* the number of messages the first i history entries gave to the Status Sink
RECURSIVE LoggedUpTo(_)
LoggedUpTo(i) == IF i = 0 THEN 0 ELSE LoggedUpTo(i - 1) + Logged(calls[i])

\* before the history entry i, every rule of the list was applied to the
\* dataset of the m-th path and every dataset a rule returned was written
Completed(m, i) ==
    /\ {calls[j].index : j \in CallsOf(m, IsRuleCall)} = 1..Len(repair_methods)
    /\ Cardinality(CallsOf(m, IsRuleCall)) = Len(repair_methods)
    /\ \A j \in CallsOf(m, IsRuleCall) :
           /\ j < i
           /\ calls[j].call.raised = ""
           /\ Truthy(calls[j].call.returns) =>
                  /\ j + 1 < i
                  /\ IsSave(calls[j + 1])
                  /\ calls[j + 1].file = m
                  /\ calls[j + 1].dataset = calls[j].call.returns
                  /\ calls[j + 1].raised = ""
    /\ \A j \in CallsOf(m, IsSave) : j < i

\* C16: perform_repairs takes the datasets one at a time.  The history never
\* goes back to an earlier file; when the Loader is called on a file, every
\* dataset yielded before has been through all its rule calls and writes, and
\* the "Checking file" line of the file comes after every line logged for
\* them.
C16_OneDatasetInFlight ==
    /\ \A i \in 1..(Len(calls) - 1) : calls[i].file <= calls[i + 1].file
    /\ \A i \in DOMAIN calls :
           IsLoad(calls[i]) =>
               /\ calls[i].at = LoggedUpTo(i - 1) + 1
               /\ IsChecking(repair_log[calls[i].at])
               /\ \A j \in 1..(i - 1) :
                      IsYield(calls[j]) => Completed(calls[j].file, i)

C16_Witness ==
    /\ pc = "done"
    /\ scanned = 2
    /\ Yielded(1)
    /\ Yielded(2)
    /\ CallsOf(1, IsSave) # {}
    /\ \A i \in CallsOf(1, IsSave) : \A j \in CallsOf(2, IsLoad) : i < j
    /\ Len(repair_log) > 2

\* C17: the content of the files never aborts a run: when every dataset of
\* the directory holds SOPInstanceUID, whatever else it lacks, perform_repairs
\* ends in an exception only when a read of a file failed.
C17_ContentNeverAborts ==
    (/\ pc = "raised"
     /\ \A i \in DOMAIN calls :
            IsYield(calls[i]) => Has(calls[i].dataset, "SOPInstanceUID"))
    => \E i \in DOMAIN calls : IsLoad(calls[i]) /\ calls[i].raised # ""

IsRerun(c) == c.op = "perform_repairs"

\* the names of the files of a directory
FileNames(directory) == {f.name : f \in directory}

\* C18: a second run of perform_repairs on the same input directory, with
\* the same output directory and rule list, never adds a file to the output
\* directory, and when it has ended the directory holds the same files with
\* the same content as after the first run.
C18_RerunSameOutput ==
    \A i \in DOMAIN calls :
        IsRerun(calls[i]) =>
            /\ FileNames(output_dir) = FileNames(calls[i].output_dir)
            /\ pc \in {"done", "raised"} => output_dir = calls[i].output_dir

C18_Witness ==
    /\ run = 2
    /\ pc = "done"
    /\ Cardinality(output_dir) = 2
    /\ \E i, j \in DOMAIN calls :
           /\ i < j
           /\ IsRerun(calls[i])
           /\ IsSave(calls[j])
           /\ calls[j].raised = ""

---------------------------------------------------------------------------
(* Claim about the Status Sink of the GUI *)

IsStatusOutput(c) == c.op = "status_output"

\* C21: status_output of the GUI does what its docstring says.  A value that
\* is supplied, 0 included, becomes the progress level whatever the level
\* was; a max_count that is supplied becomes the maximum and the level is
\* reset to 0; a message that is not empty is appended to repair_log once and
\* an empty one leaves repair_log unchanged; the level is raised by exactly 1
\* if and only if the message contains "Checking file".
C21_StatusOutputAsDocumented ==
    \A i \in DOMAIN calls :
        IsStatusOutput(calls[i]) =>
            LET c      == calls[i]
                before == c.before
                after  == c.after
                base   == IF c.value # NotGiven THEN c.value[1]
                          ELSE IF c.max_count # NotGiven THEN 0
                          ELSE before.progress_element.value
                step   == IF Contains(c.message, CheckingFile) THEN 1 ELSE 0
            IN  /\ after.progress_element.value = base + step
                /\ after.progress_element.max =
                       IF c.max_count # NotGiven THEN c.max_count[1]
                       ELSE before.progress_element.max
                /\ after.repair_log =
                       IF c.message # <<>> THEN Append(before.repair_log, c.message)
                       ELSE before.repair_log

---------------------------------------------------------------------------
(* Claims about the rules applied again *)

\* C22: the rule list of the notebook is idempotent.  When it is applied to
\* a dataset with Modality that it has already been applied to, no call of
\* the second pass changes a field, logs a line or raises, whether or not
\* the dataset holds both KVP and RadiopharmaceuticalInformationSequence.
C22_ChainIdempotent ==
    \A i \in DOMAIN calls :
        (IsRuleCall(calls[i]) /\ calls[i].file > 1) =>
            /\ calls[i].call.raised = ""
            /\ calls[i].call.events = <<>>
            /\ calls[i].call.returns = calls[i].arg

\* the value Modality holds just before the event k of a call on a dataset
\* whose Modality was `original`
HeldBefore(events, k, original) ==
    LET sets == {j \in 1..(k - 1) : events[j].type = "set"}
    IN  IF sets = {} THEN original
        ELSE events[CHOOSE j \in sets : \A l \in sets : l <= j].value

\* C23: every correction line of fix_incorrect_modality gives as old value
\* the value Modality held just before the overwrite and as new value the
\* value it holds just after; the PET check decides on the value Modality
\* holds when it runs, "CT" when the CT check has just rewritten it: with the
\* PET sequence present there is a correction to "PT" exactly when that
\* value does not contain "PT".
C23_CorrectionReportsCurrentValue ==
    \A i \in DOMAIN calls :
        (IsCallOf(calls[i], "fix_incorrect_modality") /\ Has(calls[i].arg, "Modality")) =>
            LET arg      == calls[i].arg
                original == ValueOf(arg, "Modality")
                events   == calls[i].call.events
                rewritten == \E k \in DOMAIN events :
                                 events[k].type = "set" /\ events[k].value = Str(CT)
                at_pet   == IF rewritten THEN Str(CT) ELSE original
            IN  /\ \A k \in DOMAIN events :
                       events[k].type = "status_output" =>
                           /\ IsCorrection(events[k].message)
                           /\ events[k].message.args[1] = HeldBefore(events, k, original)
                           /\ k < Len(events)
                           /\ events[k + 1].type = "set"
                           /\ events[k].message.args[2] = events[k + 1].value
                /\ Has(arg, "RadiopharmaceuticalInformationSequence") =>
                       ((\E k \in DOMAIN events :
                            events[k].type = "set" /\ events[k].value = Str(PT))
                        <=> ~ValueContains(at_pet, PT))

====
